---- MODULE Spec2Model ----
(***************************************************************************)
(* Scoring, classification and recommendation logic of                     *)
(* MarineEcosystemAnalyzer (src/app.py).                                   *)
(*                                                                         *)
(* Numbers.  The program computes with Python floats, and several of its   *)
(* results sit exactly on a threshold or are required to be exactly 1.0,   *)
(* so the arithmetic is IEEE-754 binary64 with round-to-nearest-even, not  *)
(* real arithmetic: 0.3 + 0.1 + 0.2 is 0.6000000000000001 here as it is in *)
(* the program.  A Python call either returns or raises; `raised` holds    *)
(* the exception's name ("" when the call returned).                       *)
(*                                                                         *)
(* Inputs.  The values of the st.slider widgets and the arguments of the   *)
(* scoring methods are the inputs.  analyze_harmful_algal_bloom is also    *)
(* exercised with values no slider returns, since its score and category   *)
(* are specified as functions of any four numbers; `in_sliders` tells the  *)
(* two kinds of state apart.                                               *)
(***************************************************************************)
EXTENDS Integers, Sequences, FiniteSets, TLC

\* ---------------------------------------------------------------- bounds
\* Number of equal steps each slider interval is divided into.
GridSteps == 2
\* How many slider widths beyond either end of a slider an input may lie.
MaxOut == 1
\* Longest species_health sequence passed to the recommendation selector.
MaxSpecies == 2

\* ------------------------------------------------- natural numbers (limbs)
\* TLC's integers are 32 bits wide; a significand needs 53 and a product 106.
\* A natural number is the sequence of its base-2^15 digits, lowest first,
\* with no leading zero digit (zero is <<>>).
LimbBits == 15
Base == 2 ^ LimbBits

Max2(a, b) == IF a < b THEN b ELSE a

RECURSIVE BNorm(_)
BNorm(x) ==
    IF x = <<>> THEN <<>>
    ELSE IF x[Len(x)] = 0 THEN BNorm(SubSeq(x, 1, Len(x) - 1))
    ELSE x

RECURSIVE BFromInt(_)
BFromInt(k) == IF k = 0 THEN <<>> ELSE <<k % Base>> \o BFromInt(k \div Base)

BLimb(x, i) == IF i <= Len(x) THEN x[i] ELSE 0

RECURSIVE BAddC(_, _, _, _)
BAddC(x, y, i, carry) ==
    IF i > Len(x) /\ i > Len(y)
    THEN IF carry = 0 THEN <<>> ELSE <<carry>>
    ELSE LET t == BLimb(x, i) + BLimb(y, i) + carry
         IN  <<t % Base>> \o BAddC(x, y, i + 1, t \div Base)

BAdd(x, y) == BAddC(x, y, 1, 0)

\* x - y for x >= y
RECURSIVE BSubC(_, _, _, _)
BSubC(x, y, i, borrow) ==
    IF i > Len(x) THEN <<>>
    ELSE LET t == x[i] - BLimb(y, i) - borrow
         IN  IF t < 0 THEN <<t + Base>> \o BSubC(x, y, i + 1, 1)
             ELSE <<t>> \o BSubC(x, y, i + 1, 0)

BSub(x, y) == BNorm(BSubC(x, y, 1, 0))

\* -1, 0, 1 as x <, =, > y
RECURSIVE BCmpFrom(_, _, _)
BCmpFrom(x, y, i) ==
    IF i = 0 THEN 0
    ELSE IF x[i] < y[i] THEN -1
    ELSE IF x[i] > y[i] THEN 1
    ELSE BCmpFrom(x, y, i - 1)

BCmp(x, y) ==
    IF Len(x) < Len(y) THEN -1
    ELSE IF Len(x) > Len(y) THEN 1
    ELSE BCmpFrom(x, y, Len(x))

\* x * c + carry for a digit c < Base
RECURSIVE BMulSmallC(_, _, _, _)
BMulSmallC(x, c, i, carry) ==
    IF i > Len(x)
    THEN IF carry = 0 THEN <<>> ELSE <<carry>>
    ELSE LET t == x[i] * c + carry
         IN  <<t % Base>> \o BMulSmallC(x, c, i + 1, t \div Base)

BMulSmall(x, c) == IF c = 0 THEN <<>> ELSE BMulSmallC(x, c, 1, 0)

Zeros(k) == [i \in 1..k |-> 0]

\* x * Base^k
BShiftLimbs(x, k) == IF x = <<>> THEN <<>> ELSE Zeros(k) \o x

RECURSIVE BMulFrom(_, _, _)
BMulFrom(x, y, j) ==
    IF j > Len(y) THEN <<>>
    ELSE BAdd(BShiftLimbs(BMulSmall(x, y[j]), j - 1), BMulFrom(x, y, j + 1))

BMul(x, y) == BMulFrom(x, y, 1)

\* x divided by c, 0 < c < Base: quotient and remainder
RECURSIVE BDivSmallDown(_, _, _, _)
BDivSmallDown(x, c, i, rem) ==
    IF i = 0 THEN [q |-> <<>>, r |-> rem]
    ELSE LET cur  == rem * Base + x[i]
             rest == BDivSmallDown(x, c, i - 1, cur % c)
         IN  [q |-> Append(rest.q, cur \div c), r |-> rest.r]

BDivSmall(x, c) ==
    LET d == BDivSmallDown(x, c, Len(x), 0)
    IN  [q |-> BNorm(d.q), r |-> d.r]

\* x * 2^k and floor(x / 2^k)
BShl(x, k) == BShiftLimbs(BMulSmall(x, 2 ^ (k % LimbBits)), k \div LimbBits)
BShr(x, k) ==
    IF k \div LimbBits >= Len(x) THEN <<>>
    ELSE BDivSmall(SubSeq(x, k \div LimbBits + 1, Len(x)), 2 ^ (k % LimbBits)).q

RECURSIVE IntBitLen(_)
IntBitLen(k) == IF k = 0 THEN 0 ELSE 1 + IntBitLen(k \div 2)

BBitLen(x) == IF x = <<>> THEN 0 ELSE LimbBits * (Len(x) - 1) + IntBitLen(x[Len(x)])

BIsOdd(x) == x # <<>> /\ x[1] % 2 = 1

\* the lowest k bits of x are all zero
BLowZero(x, k) ==
    /\ \A i \in 1..(k \div LimbBits) : BLimb(x, i) = 0
    /\ BLimb(x, k \div LimbBits + 1) % (2 ^ (k % LimbBits)) = 0

RECURSIVE IntTrailingZeros(_)
IntTrailingZeros(k) == IF k % 2 = 1 THEN 0 ELSE 1 + IntTrailingZeros(k \div 2)

\* number of trailing zero bits of x # 0
RECURSIVE BTrailingZerosFrom(_, _)
BTrailingZerosFrom(x, i) ==
    IF x[i] = 0 THEN LimbBits + BTrailingZerosFrom(x, i + 1)
    ELSE IntTrailingZeros(x[i])

BTrailingZeros(x) == BTrailingZerosFrom(x, 1)

\* the largest digit t in lo..hi with t * y <= cur
RECURSIVE BDigit(_, _, _, _)
BDigit(cur, y, lo, hi) ==
    IF lo = hi THEN lo
    ELSE LET mid == (lo + hi + 1) \div 2
         IN  IF BCmp(BMulSmall(y, mid), cur) <= 0
             THEN BDigit(cur, y, mid, hi)
             ELSE BDigit(cur, y, lo, mid - 1)

\* x divided by any y # 0, digit by digit from the top
RECURSIVE BDivModDown(_, _, _, _)
BDivModDown(x, y, i, rem) ==
    IF i = 0 THEN [q |-> <<>>, r |-> rem]
    ELSE LET cur  == BNorm(<<x[i]>> \o rem)
             t    == BDigit(cur, y, 0, Base - 1)
             rest == BDivModDown(x, y, i - 1, BSub(cur, BMulSmall(y, t)))
         IN  [q |-> Append(rest.q, t), r |-> rest.r]

\* quotient and remainder (both natural numbers) of x by y # 0
BDivMod(x, y) ==
    IF Len(y) = 1
    THEN LET d == BDivSmall(x, y[1]) IN [q |-> d.q, r |-> BFromInt(d.r)]
    ELSE LET d == BDivModDown(x, y, Len(x), <<>>) IN [q |-> BNorm(d.q), r |-> d.r]

\* ------------------------------------------------------------ Python float
\* A finite IEEE-754 binary64 number is (-1)^neg * m * 2^e with m odd (or
\* m = 0, e = 0, neg = FALSE), m below 2^53.  Every operation computes the
\* exact result and rounds it to nearest, ties to even, as the hardware does.
\* Overflow, subnormals and the sign of zero are not represented: the scores
\* stay many orders of magnitude away from them.
\*
\* Python evaluates the operands of an operation once, before the operation.
\* The operators below do the same: each binds its operands to their values
\* (x \in {x0}) and computes on the values.
Precision == 53

FZero == [neg |-> FALSE, m |-> <<>>, e |-> 0]

\* the exact value (-1)^neg * M * 2^e, M # 0 below 2^53, in canonical form
CanonBits(neg, M, e, z) == [neg |-> neg, m |-> BShr(M, z), e |-> e + z]

Canon(neg, M, e) ==
    IF M = <<>> THEN FZero ELSE CanonBits(neg, M, e, BTrailingZeros(M))

\* M of more than 53 bits cut to its top 53, rounded to nearest, ties to even
RoundBits(M, sh) ==
    CHOOSE r \in {IF BIsOdd(BShr(M, sh - 1)) /\ (~BLowZero(M, sh - 1) \/ BIsOdd(q))
                  THEN BAdd(q, <<1>>) ELSE q : q \in {BShr(M, sh)}} : TRUE

\* (-1)^neg * M * 2^e rounded to 53 significant bits
RoundValue(neg, M, e, len) ==
    IF len <= Precision THEN Canon(neg, M, e)
    ELSE Canon(neg, RoundBits(M, len - Precision), e + len - Precision)

Round(neg, M0, e) ==
    CHOOSE r \in {RoundValue(neg, M, e, BBitLen(M)) : M \in {M0}} : TRUE

FromInt(k) == Canon(k < 0, BFromInt(IF k < 0 THEN -k ELSE k), 0)

Negated(a) == IF a.m = <<>> THEN a ELSE [a EXCEPT !.neg = ~a.neg]

\* -1, 0, 1 as |a| <, =, > |b|, with both significands at the exponent e
MagCmpAt(a, b, e) == BCmp(BShl(a.m, a.e - e), BShl(b.m, b.e - e))

CmpValues(a, b) ==
    IF a.neg # b.neg THEN (IF a.neg THEN -1 ELSE 1)
    ELSE (IF a.neg THEN -1 ELSE 1) * MagCmpAt(a, b, IF a.e < b.e THEN a.e ELSE b.e)

\* -1, 0, 1 as a <, =, > b
FCmp(a0, b0) == CHOOSE r \in {CmpValues(a, b) : a \in {a0}, b \in {b0}} : TRUE

FLt(a, b) == FCmp(a, b) < 0
FLe(a, b) == FCmp(a, b) <= 0
FGt(a, b) == FCmp(a, b) > 0

\* the signed sum of two magnitudes at a common exponent
AddAligned(aneg, ma, bneg, mb, e) ==
    IF aneg = bneg THEN Round(aneg, BAdd(ma, mb), e)
    ELSE IF BCmp(ma, mb) >= 0 THEN Round(aneg, BSub(ma, mb), e)
    ELSE Round(bneg, BSub(mb, ma), e)

AddAt(a, b, e) ==
    CHOOSE r \in {AddAligned(a.neg, ma, b.neg, mb, e) :
                  ma \in {BShl(a.m, a.e - e)}, mb \in {BShl(b.m, b.e - e)}} : TRUE

AddValues(a, b) == AddAt(a, b, IF a.e < b.e THEN a.e ELSE b.e)

FAdd(a0, b0) == CHOOSE r \in {AddValues(a, b) : a \in {a0}, b \in {b0}} : TRUE
FSub(a0, b0) == CHOOSE r \in {AddValues(a, Negated(b)) : a \in {a0}, b \in {b0}} : TRUE

MulValues(a, b) == Round(a.neg # b.neg, BMul(a.m, b.m), a.e + b.e)

FMul(a0, b0) == CHOOSE r \in {MulValues(a, b) : a \in {a0}, b \in {b0}} : TRUE

\* a / b for a, b # 0: the quotient of a.m * 2^k by b.m has 55 bits or more;
\* one more bit below it is set when the division left a remainder
DivShifted(a, b, k) ==
    CHOOSE r \in {Round(a.neg # b.neg,
                        BAdd(BShl(d.q, 1), IF d.r = <<>> THEN <<>> ELSE <<1>>),
                        a.e - b.e - k - 1) :
                  d \in {BDivMod(BShl(a.m, k), b.m)}} : TRUE

DivValues(a, b) ==
    IF a.m = <<>> THEN FZero
    ELSE DivShifted(a, b, Max2(0, Precision + 2 + BBitLen(b.m) - BBitLen(a.m)))

\* a / b for b # 0 (the callers raise ZeroDivisionError before dividing by 0)
FDiv(a0, b0) == CHOOSE r \in {DivValues(a, b) : a \in {a0}, b \in {b0}} : TRUE

FAbs(a0) == CHOOSE r \in {[a EXCEPT !.neg = FALSE] : a \in {a0}} : TRUE

\* Python's max(a, b): b when it is greater, else a
FMax(a0, b0) == CHOOSE r \in {IF CmpValues(a, b) < 0 THEN b ELSE a : a \in {a0}, b \in {b0}} : TRUE

\* the float nearest to n/d: what the decimal literal denotes (0.3 is F(3, 10))
F(n, d) == FDiv(FromInt(n), FromInt(d))

Zero == FromInt(0)
One  == FromInt(1)

\* A Python call's outcome: it returned val, or it raised the named exception.
Ret(v)   == [raised |-> "", val |-> v]
Raise(e) == [raised |-> e, val |-> Zero]

\* ---------------------------------------------------------------- tables
\* self.hab_prediction_model['Risk Factors'][factor]['sensitivity']
hab_risk_factors ==
    ("Water Temperature" :> F(3, 10)) @@
    ("Nutrient Levels"   :> F(3, 10)) @@
    ("Salinity"          :> F(2, 10)) @@
    ("pH Levels"         :> F(2, 10))

\* self.biodiversity_model['Water Quality'][parameter]
quality_model ==
    ("Dissolved Oxygen" :>
        [optimal_range |-> <<F(13, 2), F(17, 2)>>, importance |-> F(3, 10)]) @@
    ("Turbidity" :>
        [optimal_range |-> <<FromInt(0), FromInt(5)>>, importance |-> F(2, 10)]) @@
    ("Microplastic Count" :>
        [optimal_range |-> <<FromInt(0), FromInt(10)>>, importance |-> F(3, 10)]) @@
    ("Chemical Pollutants" :>
        [optimal_range |-> <<FromInt(0), FromInt(2)>>, importance |-> F(2, 10)])

\* [species_data[cat]['health_index'] for cat in categories], in table order
health_indices == <<F(7, 10), F(6, 10), F(5, 10), F(4, 10)>>

\* ------------------------------------------------------- pure functions
\* Variant of parameter_score whose range test excludes the endpoints
\* (min_val < value < max_val); the property of C1 tells it from the program.
parameter_score_open_interval(value, min_val, max_val) ==
    IF FLt(min_val, value) /\ FLt(value, max_val)
    THEN Ret(One)
    ELSE IF FLt(value, min_val)
    THEN IF min_val = Zero
         THEN Raise("ZeroDivisionError")
         ELSE Ret(FMax(Zero, FSub(One, FDiv(FSub(min_val, value), min_val))))
    ELSE IF max_val = Zero
         THEN Raise("ZeroDivisionError")
         ELSE Ret(FMax(Zero, FSub(One, FDiv(FSub(value, max_val), max_val))))

\* The body of _calculate_parameter_score after min_val, max_val = optimal_range.
parameter_score(value, min_val, max_val) ==
    IF FLe(min_val, value) /\ FLe(value, max_val)
    THEN Ret(One)
    ELSE IF FLt(value, min_val)
    THEN IF min_val = Zero
         THEN Raise("ZeroDivisionError")
         ELSE Ret(FMax(Zero, FSub(One, FDiv(FSub(min_val, value), min_val))))
    ELSE IF max_val = Zero
         THEN Raise("ZeroDivisionError")
         ELSE Ret(FMax(Zero, FSub(One, FDiv(FSub(value, max_val), max_val))))

\* _calculate_parameter_score(value, optimal_range)
calculate_parameter_score(value0, optimal_range) ==
    CHOOSE r \in {parameter_score(value, min_val, max_val) :
                  value \in {value0},
                  min_val \in {optimal_range[1]},
                  max_val \in {optimal_range[2]}} : TRUE

\* Variant of weighted_average with the turbidity and microplastic weights
\* exchanged; the property of C4 tells it from the program.
weighted_average_exchanged(oxygen_score, turbidity_score, microplastic_score, chemical_score) ==
    FAdd(FAdd(FAdd(FMul(oxygen_score, F(3, 10)),
                   FMul(turbidity_score, F(3, 10))),
              FMul(microplastic_score, F(2, 10))),
         FMul(chemical_score, F(2, 10)))

\* Variant of weighted_average whose last weight is 0.3, so that the weights
\* add up to 1.1; the property of C12 tells it from the program.
weighted_average_heavy_chemical(oxygen_score, turbidity_score, microplastic_score, chemical_score) ==
    FAdd(FAdd(FAdd(FMul(oxygen_score, F(3, 10)),
                   FMul(turbidity_score, F(2, 10))),
              FMul(microplastic_score, F(3, 10))),
         FMul(chemical_score, F(3, 10)))

\* The weighted average at the end of _calculate_water_quality.
weighted_average(oxygen_score, turbidity_score, microplastic_score, chemical_score) ==
    FAdd(FAdd(FAdd(FMul(oxygen_score, F(3, 10)),
                   FMul(turbidity_score, F(2, 10))),
              FMul(microplastic_score, F(3, 10))),
         FMul(chemical_score, F(2, 10)))

\* The four scores are computed in order, so the first exception among them
\* is the one that leaves _calculate_water_quality.
first_raised_or_average(oxygen_score, turbidity_score, microplastic_score, chemical_score) ==
    IF oxygen_score.raised # "" THEN oxygen_score
    ELSE IF turbidity_score.raised # "" THEN turbidity_score
    ELSE IF microplastic_score.raised # "" THEN microplastic_score
    ELSE IF chemical_score.raised # "" THEN chemical_score
    ELSE Ret(weighted_average(oxygen_score.val, turbidity_score.val,
                              microplastic_score.val, chemical_score.val))

\* _calculate_water_quality(oxygen, turbidity, microplastic, chemical) on an
\* analyzer whose biodiversity_model attribute is set (has_model) or not.
calculate_water_quality(has_model, oxygen, turbidity, microplastic, chemical) ==
    IF ~has_model THEN Raise("AttributeError")
    ELSE CHOOSE r \in
        {first_raised_or_average(oxygen_score, turbidity_score,
                                 microplastic_score, chemical_score) :
            oxygen_score \in {calculate_parameter_score(
                oxygen, quality_model["Dissolved Oxygen"].optimal_range)},
            turbidity_score \in {calculate_parameter_score(
                turbidity, quality_model["Turbidity"].optimal_range)},
            microplastic_score \in {calculate_parameter_score(
                microplastic, quality_model["Microplastic Count"].optimal_range)},
            chemical_score \in {calculate_parameter_score(
                chemical, quality_model["Chemical Pollutants"].optimal_range)}} : TRUE

\* quality_color in analyze_marine_health
quality_color(water_quality) ==
    IF FGt(water_quality, F(7, 10)) THEN "green"
    ELSE IF FGt(water_quality, F(4, 10)) THEN "orange"
    ELSE "red"

\* Variant of hab_risk_score that takes the signed distances salinity - 35 and
\* ph_level - 8 instead of their absolute values; the property of C10 tells
\* it from the program.
hab_risk_score_signed(water_temp, nutrient_levels, salinity, ph_level) ==
    FAdd(FAdd(FAdd(
        FMul(hab_risk_factors["Water Temperature"], FDiv(water_temp, FromInt(35))),
        FMul(hab_risk_factors["Nutrient Levels"], FDiv(nutrient_levels, FromInt(10)))),
        FMul(hab_risk_factors["Salinity"],
             FSub(One, FDiv(FSub(salinity, FromInt(35)), FromInt(10))))),
        FMul(hab_risk_factors["pH Levels"],
             FSub(One, FDiv(FSub(ph_level, FromInt(8)), FromInt(2)))))

\* hab_risk_score in analyze_harmful_algal_bloom
hab_risk_score(water_temp, nutrient_levels, salinity, ph_level) ==
    FAdd(FAdd(FAdd(
        FMul(hab_risk_factors["Water Temperature"], FDiv(water_temp, FromInt(35))),
        FMul(hab_risk_factors["Nutrient Levels"], FDiv(nutrient_levels, FromInt(10)))),
        FMul(hab_risk_factors["Salinity"],
             FSub(One, FDiv(FAbs(FSub(salinity, FromInt(35))), FromInt(10))))),
        FMul(hab_risk_factors["pH Levels"],
             FSub(One, FDiv(FAbs(FSub(ph_level, FromInt(8))), FromInt(2)))))

\* Variant of risk_category that compares with >= ; the property of C8 tells
\* it from the program.
risk_category_inclusive(score) ==
    IF ~FLt(score, F(8, 10)) THEN "Critical"
    ELSE IF ~FLt(score, F(6, 10)) THEN "High"
    ELSE IF ~FLt(score, F(4, 10)) THEN "Moderate"
    ELSE "Low"

\* Variant of risk_category that accepts only scores in [0, 1] and puts every
\* other score in the lowest bucket; the property of C9 tells it from the
\* program.
risk_category_unit_interval(score) ==
    IF FLt(score, Zero) \/ FGt(score, One) THEN "Low"
    ELSE IF FGt(score, F(8, 10)) THEN "Critical"
    ELSE IF FGt(score, F(6, 10)) THEN "High"
    ELSE IF FGt(score, F(4, 10)) THEN "Moderate"
    ELSE "Low"

\* Variant of risk_category with the labels of the two middle buckets
\* exchanged; the property of C13 tells it from the program.
risk_category_exchanged_labels(score) ==
    IF FGt(score, F(8, 10)) THEN "Critical"
    ELSE IF FGt(score, F(6, 10)) THEN "Moderate"
    ELSE IF FGt(score, F(4, 10)) THEN "High"
    ELSE "Low"

\* risk_category in analyze_harmful_algal_bloom
risk_category(score) ==
    IF FGt(score, F(8, 10)) THEN "Critical"
    ELSE IF FGt(score, F(6, 10)) THEN "High"
    ELSE IF FGt(score, F(4, 10)) THEN "Moderate"
    ELSE "Low"

\* Python's sum() of a sequence of floats: 0 + s[1] + s[2] + ...
RECURSIVE FSum(_)
FSum(seq) ==
    IF seq = <<>> THEN Zero
    ELSE FAdd(FSum(SubSeq(seq, 1, Len(seq) - 1)), seq[Len(seq)])

\* Variant of recommendations that compares with <= ; the property of C6
\* tells it from the program.
recommendations_inclusive(water_quality, avg_species_health) ==
    IF FLe(water_quality, F(5, 10)) \/ FLe(avg_species_health, F(5, 10))
    THEN [raised |-> "", shown |-> "Critical"]
    ELSE [raised |-> "", shown |-> "Preventive"]

\* The branch of _display_conservation_recommendations.
recommendations(water_quality, avg_species_health) ==
    IF FLt(water_quality, F(5, 10)) \/ FLt(avg_species_health, F(5, 10))
    THEN [raised |-> "", shown |-> "Critical"]
    ELSE [raised |-> "", shown |-> "Preventive"]

\* _display_conservation_recommendations(water_quality, species_health):
\* `shown` names the block that is displayed.
display_conservation_recommendations(water_quality, species_health) ==
    IF Len(species_health) = 0
    THEN [raised |-> "ZeroDivisionError", shown |-> ""]
    ELSE CHOOSE r \in
        {recommendations(water_quality, avg_species_health) :
            avg_species_health \in
                {FDiv(FSum(species_health), FromInt(Len(species_health)))}} : TRUE

\* ---------------------------------------------------------------- inputs
\* st.slider(label, min_value, max_value, value)
Slider(lo, hi, default) == [lo |-> lo, hi |-> hi, default |-> default]

water_temp_slider      == Slider(20, 35, 25)
nutrient_levels_slider == Slider(0, 10, 2)
salinity_slider        == Slider(30, 40, 35)
ph_level_slider        == Slider(6, 9, 8)
dissolved_oxygen_slider   == Slider(0, 10, 7)
turbidity_slider          == Slider(0, 20, 3)
microplastic_slider       == Slider(0, 50, 5)
chemical_pollution_slider == Slider(0, 10, 1)

\* Values a slider can return: its default and an even grid over [lo, hi].
SliderValues(s) ==
    {FromInt(s.default)} \cup
    {F(s.lo * GridSteps + k * (s.hi - s.lo), GridSteps) : k \in 0..GridSteps}

\* Values outside the slider, up to MaxOut slider widths away from it.
BeyondSlider(s) ==
    {FromInt(s.lo - k * (s.hi - s.lo)) : k \in 1..MaxOut} \cup
    {FromInt(s.hi + k * (s.hi - s.lo)) : k \in 1..MaxOut}

InSlider(v, s) == FLe(FromInt(s.lo), v) /\ FLe(v, FromInt(s.hi))

\* Points placed by an optimal range: its ends, half the lower bound (half
\* the penalty below) and one and a half times the upper bound (half above).
RangePoints(range) ==
    {range[1], range[2], FMul(range[1], F(1, 2)), FMul(range[2], F(3, 2))}

\* Arguments of a direct call of _calculate_water_quality.
Arguments(s, range) == {FromInt(s.default)} \cup BeyondSlider(s) \cup RangePoints(range)

OxygenArgs == Arguments(dissolved_oxygen_slider,
                        quality_model["Dissolved Oxygen"].optimal_range)
TurbidityArgs == Arguments(turbidity_slider,
                           quality_model["Turbidity"].optimal_range)
MicroplasticArgs == Arguments(microplastic_slider,
                              quality_model["Microplastic Count"].optimal_range)
ChemicalArgs == Arguments(chemical_pollution_slider,
                          quality_model["Chemical Pollutants"].optimal_range)

TableRanges == {quality_model[p].optimal_range : p \in DOMAIN quality_model}

\* Other ranges for direct calls of the normaliser: every pair of bounds in
\* -(MaxOut+1)..(MaxOut+1), zero and negative bounds included.
SmallRanges ==
    {<<FromInt(a), FromInt(b)>> : a \in -(MaxOut + 1)..(MaxOut + 1),
                                  b \in -(MaxOut + 1)..(MaxOut + 1)}

\* Values in half units around the small ranges.
SmallValues == {F(k, 2) : k \in -(2 * MaxOut + 4)..(4 * MaxOut + 6)}

\* Scores handed to the recommendation selector.
WaterQualityArgs == {F(k, 10) : k \in 0..10}
SpeciesHealthArgs == {F(k, 10) : k \in {2, 4, 5, 6, 8}}

RECURSIVE SeqsUpTo(_, _)
SeqsUpTo(S, n) ==
    IF n = 0 THEN {<<>>}
    ELSE LET shorter == SeqsUpTo(S, n - 1)
         IN  shorter \cup {Append(q, x) : q \in {t \in shorter : Len(t) = n - 1}, x \in S}

\* ----------------------------------------------------------------- state
VARIABLES
    biodiversity_model,  \* hasattr(self, 'biodiversity_model')
    op,                  \* the method whose call has just ended, "idle" if none
    args,                \* its numeric arguments, in order
    species_health,      \* the species_health argument of the selector
    raised,              \* the exception the call ended in, "" if it returned
    ret,                 \* the score it computed
    category,            \* risk_category / quality_color it derived
    shown,               \* the recommendation block it displayed
    in_sliders           \* the arguments are values the sliders can return

vars == <<biodiversity_model, op, args, species_health, raised, ret, category,
          shown, in_sliders>>

\* MarineEcosystemAnalyzer(): four tables are loaded, biodiversity_model is not.
Init ==
    /\ biodiversity_model = FALSE
    /\ op = "idle"
    /\ args = <<>>
    /\ species_health = <<>>
    /\ raised = ""
    /\ ret = Zero
    /\ category = ""
    /\ shown = ""
    /\ in_sliders = TRUE

\* A direct call of _calculate_parameter_score(value, (min, max)).
CalculateParameterScore ==
    /\ op = "idle"
    /\ \E range \in TableRanges \cup SmallRanges :
       \E value \in (IF range \in TableRanges
                     THEN OxygenArgs \cup TurbidityArgs \cup MicroplasticArgs \cup ChemicalArgs
                     ELSE SmallValues) :
           \E r \in {calculate_parameter_score(value, range)} :
               /\ op' = "_calculate_parameter_score"
               /\ args' = <<value, range[1], range[2]>>
               /\ raised' = r.raised
               /\ ret' = r.val
               /\ category' = ""
               /\ shown' = ""
               /\ in_sliders' = FALSE
               /\ UNCHANGED <<biodiversity_model, species_health>>

\* A direct call of _calculate_water_quality(oxygen, turbidity, microplastic, chemical).
CalculateWaterQuality ==
    /\ op = "idle"
    /\ \E oxygen \in OxygenArgs, turbidity \in TurbidityArgs,
          microplastic \in MicroplasticArgs, chemical \in ChemicalArgs :
           \E r \in {calculate_water_quality(biodiversity_model, oxygen, turbidity,
                                               microplastic, chemical)} :
               /\ op' = "_calculate_water_quality"
               /\ args' = <<oxygen, turbidity, microplastic, chemical>>
               /\ raised' = r.raised
               /\ ret' = r.val
               /\ category' = ""
               /\ shown' = ""
               /\ in_sliders' = FALSE
               /\ UNCHANGED <<biodiversity_model, species_health>>

\* A direct call of _display_conservation_recommendations(water_quality, species_health).
DisplayConservationRecommendations ==
    /\ op = "idle"
    /\ \E water_quality \in WaterQualityArgs,
          health \in SeqsUpTo(SpeciesHealthArgs, MaxSpecies) :
           \E r \in {display_conservation_recommendations(water_quality, health)} :
               /\ op' = "_display_conservation_recommendations"
               /\ args' = <<water_quality>>
               /\ species_health' = health
               /\ raised' = r.raised
               /\ ret' = Zero
               /\ category' = ""
               /\ shown' = r.shown
               /\ in_sliders' = FALSE
               /\ UNCHANGED biodiversity_model

\* analyze_marine_health(): the lazy load, the four sliders, the score, its
\* colour and the recommendations for the table's health indices.
AnalyzeMarineHealth ==
    /\ op = "idle"
    /\ \E dissolved_oxygen \in SliderValues(dissolved_oxygen_slider),
          turbidity \in SliderValues(turbidity_slider),
          microplastic \in SliderValues(microplastic_slider),
          chemical_pollution \in SliderValues(chemical_pollution_slider) :
           \E water_quality \in {calculate_water_quality(TRUE, dissolved_oxygen,
                                    turbidity, microplastic, chemical_pollution)} :
           \E rec \in {display_conservation_recommendations(water_quality.val,
                                                            health_indices)} :
               /\ biodiversity_model' = TRUE
               /\ op' = "analyze_marine_health"
               /\ args' = <<dissolved_oxygen, turbidity, microplastic, chemical_pollution>>
               /\ species_health' = health_indices
               /\ raised' = IF water_quality.raised # "" THEN water_quality.raised
                            ELSE rec.raised
               /\ ret' = water_quality.val
               /\ category' = IF water_quality.raised # "" THEN ""
                              ELSE quality_color(water_quality.val)
               /\ shown' = IF water_quality.raised # "" THEN "" ELSE rec.shown
               /\ in_sliders' = TRUE

\* analyze_harmful_algal_bloom(): the four inputs, the score and its category.
AnalyzeHarmfulAlgalBloom ==
    /\ op = "idle"
    /\ \E water_temp \in SliderValues(water_temp_slider) \cup BeyondSlider(water_temp_slider),
          nutrient_levels \in SliderValues(nutrient_levels_slider)
                              \cup BeyondSlider(nutrient_levels_slider),
          salinity \in SliderValues(salinity_slider) \cup BeyondSlider(salinity_slider),
          ph_level \in SliderValues(ph_level_slider) \cup BeyondSlider(ph_level_slider) :
           \E score \in {hab_risk_score(water_temp, nutrient_levels, salinity,
                                         ph_level)} :
               /\ op' = "analyze_harmful_algal_bloom"
               /\ args' = <<water_temp, nutrient_levels, salinity, ph_level>>
               /\ raised' = ""
               /\ ret' = score
               /\ category' = risk_category(score)
               /\ shown' = ""
               /\ in_sliders' = /\ InSlider(water_temp, water_temp_slider)
                                /\ InSlider(nutrient_levels, nutrient_levels_slider)
                                /\ InSlider(salinity, salinity_slider)
                                /\ InSlider(ph_level, ph_level_slider)
               /\ UNCHANGED <<biodiversity_model, species_health>>

\* The caller takes the outcome and the analyzer waits for the next call; only
\* the attributes of the analyzer outlive the call.
Return ==
    /\ op # "idle"
    /\ op' = "idle"
    /\ args' = <<>>
    /\ species_health' = <<>>
    /\ raised' = ""
    /\ ret' = Zero
    /\ category' = ""
    /\ shown' = ""
    /\ in_sliders' = TRUE
    /\ UNCHANGED biodiversity_model

Next ==
    \/ CalculateParameterScore
    \/ CalculateWaterQuality
    \/ DisplayConservationRecommendations
    \/ AnalyzeMarineHealth
    \/ AnalyzeHarmfulAlgalBloom
    \/ Return

Spec == Init /\ [][Next]_vars


\* ================================================================ claims
\* The state after a call holds the call (op, args, species_health) and its
\* outcome (raised, ret, category, shown); each property below is stated on
\* that state.

InRange(value, min_val, max_val) == FLe(min_val, value) /\ FLe(value, max_val)

\* ------------------------------------------------------------------- C1
\* C1: for every range (min, max) with min <= max and every value with
\* min <= value <= max, endpoints included, _calculate_parameter_score
\* returns exactly 1.0.
C1_InRangeScoresOne ==
    (op = "_calculate_parameter_score" /\ InRange(args[1], args[2], args[3]))
        => (raised = "" /\ ret = One)

\* A call with the value on the lower endpoint of a range that is not a
\* single point has returned 1.0.
C1_Witness ==
    /\ op = "_calculate_parameter_score"
    /\ args[1] = args[2]
    /\ FLt(args[2], args[3])
    /\ raised = ""
    /\ ret = One

\* ------------------------------------------------------------------- C2
\* C2: for every value and every range whose min and max are both different
\* from 0, negative bounds included, the result of
\* _calculate_parameter_score satisfies 0.0 <= result <= 1.0.
C2_ScoreInUnitInterval ==
    (op = "_calculate_parameter_score" /\ FLe(args[2], args[3])
        /\ args[2] # Zero /\ args[3] # Zero)
        => (raised = "" /\ FLe(Zero, ret) /\ FLe(ret, One))

\* ------------------------------------------------------------------- C3
\* C3: _calculate_parameter_score never ends in an arithmetic fault; when
\* the value is below a lower bound of 0 or above an upper bound of 0 the
\* division is guarded and the call returns the score 0.
C3_ZeroBoundGuarded ==
    op = "_calculate_parameter_score"
        => /\ raised = ""
           /\ (FLt(args[1], args[2]) /\ args[2] = Zero) => ret = Zero
           /\ (~InRange(args[1], args[2], args[3]) /\ ~FLt(args[1], args[2])
                  /\ args[3] = Zero) => ret = Zero

\* ------------------------------------------------------------------- C4
\* 0.3*s(oxygen,(6.5,8.5)) + 0.2*s(turbidity,(0,5)) + 0.3*s(microplastic,(0,10))
\* + 0.2*s(chemical,(0,2)) for four scores that were returned.
C4_Combination(so, st, sm, sc) ==
    FAdd(FAdd(FAdd(FMul(F(3, 10), so), FMul(F(2, 10), st)),
              FMul(F(3, 10), sm)),
         FMul(F(2, 10), sc))

\* The outcome (raised, ret) is that of the combination of the four scores:
\* its value when s returns four times, an exception when s raises one.
C4_IsCombination(so, st, sm, sc) ==
    IF so.raised = "" /\ st.raised = "" /\ sm.raised = "" /\ sc.raised = ""
    THEN raised = "" /\ ret = C4_Combination(so.val, st.val, sm.val, sc.val)
    ELSE raised \in {so.raised, st.raised, sm.raised, sc.raised} \ {""}

\* C4: on an analyzer whose table is loaded, _calculate_water_quality(oxygen,
\* turbidity, microplastic, chemical) is 0.3*s(oxygen,(6.5,8.5)) +
\* 0.2*s(turbidity,(0,5)) + 0.3*s(microplastic,(0,10)) + 0.2*s(chemical,(0,2))
\* with s = _calculate_parameter_score, and it is exactly 1.0 whenever the
\* four inputs lie inside their ranges, as (7, 3, 5, 1) do.
C4_WaterQualityIsWeightedSum ==
    (op \in {"_calculate_water_quality", "analyze_marine_health"}
        /\ biodiversity_model)
        => /\ \E so \in {calculate_parameter_score(args[1], <<F(13, 2), F(17, 2)>>)},
                 st \in {calculate_parameter_score(args[2], <<FromInt(0), FromInt(5)>>)},
                 sm \in {calculate_parameter_score(args[3], <<FromInt(0), FromInt(10)>>)},
                 sc \in {calculate_parameter_score(args[4], <<FromInt(0), FromInt(2)>>)} :
                  C4_IsCombination(so, st, sm, sc)
           /\ (/\ InRange(args[1], F(13, 2), F(17, 2))
               /\ InRange(args[2], FromInt(0), FromInt(5))
               /\ InRange(args[3], FromInt(0), FromInt(10))
               /\ InRange(args[4], FromInt(0), FromInt(2)))
                  => (raised = "" /\ ret = One)

\* _calculate_water_quality(7.0, 3.0, 5.0, 1.0) has returned exactly 1.0.
C4_Witness ==
    /\ op = "_calculate_water_quality"
    /\ biodiversity_model
    /\ args = <<FromInt(7), FromInt(3), FromInt(5), FromInt(1)>>
    /\ raised = ""
    /\ ret = One

\* ------------------------------------------------------------------- C5
\* b is on the same side of the range as a and at least as close to it.
C5_TowardRange(a, b, range) ==
    \/ FLt(a, range[1]) /\ FLe(a, b) /\ FLt(b, range[1])
    \/ FGt(a, range[2]) /\ FLe(b, a) /\ FGt(b, range[2])

C5_Inputs ==
    <<[values |-> OxygenArgs,
       range |-> quality_model["Dissolved Oxygen"].optimal_range],
      [values |-> TurbidityArgs,
       range |-> quality_model["Turbidity"].optimal_range],
      [values |-> MicroplasticArgs,
       range |-> quality_model["Microplastic Count"].optimal_range],
      [values |-> ChemicalArgs,
       range |-> quality_model["Chemical Pollutants"].optimal_range]>>

\* The call with input i at b and the other three as in args returns a score
\* that is at least the score in ret.
C5_AtLeast(i, b) ==
    \E r \in {calculate_water_quality(TRUE,
                  IF i = 1 THEN b ELSE args[1], IF i = 2 THEN b ELSE args[2],
                  IF i = 3 THEN b ELSE args[3], IF i = 4 THEN b ELSE args[4])} :
        raised = "" /\ r.raised = "" /\ FLe(ret, r.val)

\* C5: the water-quality score is monotonically non-decreasing in each input
\* as it moves toward its optimal range with the other three held fixed: for
\* a, b of one input on the same side of its range with b at least as close,
\* water_quality(..., b, ...) >= water_quality(..., a, ...).
C5_MonotoneTowardRange ==
    (op = "_calculate_water_quality" /\ biodiversity_model)
        => \A i \in 1..4 : \A b \in C5_Inputs[i].values :
              C5_TowardRange(args[i], b, C5_Inputs[i].range) => C5_AtLeast(i, b)

\* C5 restricted to the calls that return: every pair of calls that both
\* return is ordered as C5 says.
C5_MonotoneWhereDefined ==
    (op = "_calculate_water_quality" /\ biodiversity_model /\ raised = "")
        => \A i \in 1..4 : \A b \in C5_Inputs[i].values :
              C5_TowardRange(args[i], b, C5_Inputs[i].range)
                  => \E r \in {calculate_water_quality(TRUE,
                         IF i = 1 THEN b ELSE args[1], IF i = 2 THEN b ELSE args[2],
                         IF i = 3 THEN b ELSE args[3], IF i = 4 THEN b ELSE args[4])} :
                         r.raised = "" => FLe(ret, r.val)

\* ------------------------------------------------------------------- C6
\* The arithmetic mean of a non-empty sequence of scores, in floats.
C6_Mean(scores) == FDiv(FSum(scores), FromInt(Len(scores)))

\* C6: for every water-quality score and every non-empty sequence of species
\* health scores the selector shows exactly one of the two sets: Critical if
\* and only if water_quality < 0.5 or the mean of the species scores < 0.5,
\* Preventive otherwise, also when either quantity is exactly 0.5.
C6_CriticalIffBelowHalf ==
    /\ (op = "_display_conservation_recommendations" /\ Len(species_health) > 0)
          => /\ raised = ""
             /\ shown \in {"Critical", "Preventive"}
             /\ shown = "Critical" <=>
                   (FLt(args[1], F(1, 2)) \/ FLt(C6_Mean(species_health), F(1, 2)))
    /\ (op = "analyze_marine_health" /\ raised = "")
          => /\ shown \in {"Critical", "Preventive"}
             /\ shown = "Critical" <=>
                   (FLt(ret, F(1, 2)) \/ FLt(C6_Mean(species_health), F(1, 2)))

\* The selector was called with water quality exactly 0.5 and two species
\* scores, 0.2 and 0.8, whose mean is exactly 0.5, and showed Preventive.
C6_Witness ==
    /\ op = "_display_conservation_recommendations"
    /\ args = <<F(1, 2)>>
    /\ species_health = <<F(2, 10), F(8, 10)>>
    /\ C6_Mean(species_health) = F(1, 2)
    /\ shown = "Preventive"

\* ------------------------------------------------------------------- C7
\* C7: called with an empty sequence of species health scores, the selector
\* ends in the named error EmptyInputError, raised before any set is shown,
\* and not in a division exception.
C7_EmptyInputError ==
    (op = "_display_conservation_recommendations" /\ species_health = <<>>)
        => (raised = "EmptyInputError" /\ shown = "")

\* ------------------------------------------------------------------- C8
\* C8: the HAB classifier is a descending chain of strict comparisons: above
\* 0.8 Critical, else above 0.6 High, else above 0.4 Moderate, else Low, so
\* a score equal to a cutoff is in the lower bucket; the water-quality band
\* does the same with 0.7 and 0.4.
C8_StrictCutoffs ==
    /\ op = "analyze_harmful_algal_bloom"
          => /\ FGt(ret, F(8, 10)) => category = "Critical"
             /\ (FLe(ret, F(8, 10)) /\ FGt(ret, F(6, 10))) => category = "High"
             /\ (FLe(ret, F(6, 10)) /\ FGt(ret, F(4, 10))) => category = "Moderate"
             /\ FLe(ret, F(4, 10)) => category = "Low"
    /\ (op = "analyze_marine_health" /\ raised = "")
          => /\ FGt(ret, F(7, 10)) => category = "green"
             /\ (FLe(ret, F(7, 10)) /\ FGt(ret, F(4, 10))) => category = "orange"
             /\ FLe(ret, F(4, 10)) => category = "red"

\* A HAB score of exactly 0.8 was classified High.
C8_Witness ==
    /\ op = "analyze_harmful_algal_bloom"
    /\ ret = F(8, 10)
    /\ category = "High"

\* A water-quality score of exactly 0.7 got the middle band.
C8_WaterBandTie ==
    /\ op = "analyze_marine_health"
    /\ ret = F(7, 10)
    /\ category = "orange"

C9_BelowZero ==
    /\ op = "analyze_harmful_algal_bloom"
    /\ FLt(ret, Zero)
    /\ category = "Low"

\* ------------------------------------------------------------------ C10
\* 0.3*(temp/35) + 0.3*(nutrients/10) + 0.2*(1 - |salinity-35|/10)
\* + 0.2*(1 - |ph-8|/2)
C10_Formula(temp, nutrients, salinity, ph) ==
    FAdd(FAdd(FAdd(
        FMul(F(3, 10), FDiv(temp, FromInt(35))),
        FMul(F(3, 10), FDiv(nutrients, FromInt(10)))),
        FMul(F(2, 10), FSub(One, FDiv(FAbs(FSub(salinity, FromInt(35))), FromInt(10))))),
        FMul(F(2, 10), FSub(One, FDiv(FAbs(FSub(ph, FromInt(8))), FromInt(2)))))

\* C10: the HAB risk score is 0.3*(temp/35) + 0.3*(nutrients/10) +
\* 0.2*(1 - |salinity-35|/10) + 0.2*(1 - |ph-8|/2); at temp = 35,
\* nutrients = 10, salinity = 35, ph = 8 it is exactly 1.0 and the input is
\* classified Critical.
C10_HabScoreFormula ==
    op = "analyze_harmful_algal_bloom"
        => /\ ret = C10_Formula(args[1], args[2], args[3], args[4])
           /\ args = <<FromInt(35), FromInt(10), FromInt(35), FromInt(8)>>
                 => (ret = One /\ category = "Critical")

\* The HAB analysis ran at (35, 10, 35, 8), scored exactly 1.0 and showed
\* Critical.
C10_Witness ==
    /\ op = "analyze_harmful_algal_bloom"
    /\ args = <<FromInt(35), FromInt(10), FromInt(35), FromInt(8)>>
    /\ in_sliders
    /\ ret = One
    /\ category = "Critical"

\* ------------------------------------------------------------------ C11
\* C11: water-quality scoring is a stateless pure function of its four
\* inputs on every analyzer: in every reachable state, also when no
\* operation has run since construction, _calculate_water_quality computes
\* from tables loaded at construction and gives the same outcome for the
\* same inputs, which is the outcome on an analyzer whose table is loaded.
C11_WaterQualityStateless ==
    op = "_calculate_water_quality"
        => /\ raised # "AttributeError"
           /\ \E r \in {calculate_water_quality(TRUE, args[1], args[2],
                                                args[3], args[4])} :
                  raised = r.raised /\ ret = r.val

\* Once analyze_marine_health has run, the same call has the outcome that
\* only depends on its inputs.
C11_StatelessOnceLoaded ==
    (op = "_calculate_water_quality" /\ biodiversity_model)
        => /\ raised # "AttributeError"
           /\ \E r \in {calculate_water_quality(TRUE, args[1], args[2],
                                                args[3], args[4])} :
                  raised = r.raised /\ ret = r.val

\* ------------------------------------------------------------------ C12
\* The weight the water-quality combination gives to its i-th score: its
\* value when that score is 1 and the other three are 0.
C12_WeightUsed(i) ==
    weighted_average(IF i = 1 THEN One ELSE Zero, IF i = 2 THEN One ELSE Zero,
                     IF i = 3 THEN One ELSE Zero, IF i = 4 THEN One ELSE Zero)

C12_WaterWeights ==
    <<C12_WeightUsed(1), C12_WeightUsed(2), C12_WeightUsed(3), C12_WeightUsed(4)>>

C12_Importance ==
    <<quality_model["Dissolved Oxygen"].importance,
      quality_model["Turbidity"].importance,
      quality_model["Microplastic Count"].importance,
      quality_model["Chemical Pollutants"].importance>>

\* The weight the HAB score gives to each of its four factors: its value
\* where that factor is 1 and the other three are 0 (temperature 35 or 0,
\* nutrients 10 or 0, salinity 35 or 45, pH 8 or 10).
C12_SensitivityUsed ==
    <<hab_risk_score(FromInt(35), FromInt(0), FromInt(45), FromInt(10)),
      hab_risk_score(FromInt(0), FromInt(10), FromInt(45), FromInt(10)),
      hab_risk_score(FromInt(0), FromInt(0), FromInt(35), FromInt(10)),
      hab_risk_score(FromInt(0), FromInt(0), FromInt(45), FromInt(8))>>

C12_Sensitivity ==
    <<hab_risk_factors["Water Temperature"], hab_risk_factors["Nutrient Levels"],
      hab_risk_factors["Salinity"], hab_risk_factors["pH Levels"]>>

\* C12: in each composite combination the weights used sum to exactly 1.0:
\* the four weights of the water-quality combination are 0.3, 0.2, 0.3, 0.2,
\* equal to the importance values of the Water Quality table entry by entry,
\* and the four weights of the HAB score are the sensitivity values 0.3,
\* 0.3, 0.2, 0.2 of the Risk Factors table.
C12_WeightsSumToOne ==
    /\ (op \in {"_calculate_water_quality", "analyze_marine_health"} /\ raised = "")
          => /\ C12_WaterWeights = <<F(3, 10), F(2, 10), F(3, 10), F(2, 10)>>
             /\ C12_WaterWeights = C12_Importance
             /\ FSum(C12_WaterWeights) = One
    /\ op = "analyze_harmful_algal_bloom"
          => /\ C12_SensitivityUsed = <<F(3, 10), F(3, 10), F(2, 10), F(2, 10)>>
             /\ C12_SensitivityUsed = C12_Sensitivity
             /\ FSum(C12_SensitivityUsed) = One

\* analyze_marine_health combined four scores of 1.0 and the result is the
\* sum of the weights, exactly 1.0.
C12_Witness ==
    /\ op = "analyze_marine_health"
    /\ args = <<FromInt(7), FromInt(3), FromInt(5), FromInt(1)>>
    /\ raised = ""
    /\ ret = FSum(C12_WaterWeights)
    /\ ret = One

\* ------------------------------------------------------------------ C13
\* Low < Moderate < High < Critical, and red < orange < green for the band.
C13_Rank(label) ==
    CASE label = "Low" -> 0
      [] label = "Moderate" -> 1
      [] label = "High" -> 2
      [] label = "Critical" -> 3
      [] label = "red" -> 0
      [] label = "orange" -> 1
      [] label = "green" -> 2

\* Scores to compare a computed score with: the twentieths from below 0 to
\* above 1, the cutoffs 0.4, 0.6, 0.7 and 0.8 among them, each with the
\* category and the band the program gives it.
C13_Scores ==
    {[score |-> b, category |-> risk_category(b), band |-> quality_color(b)] :
        b \in {F(k, 20) : k \in -(4 * MaxOut)..(20 + 4 * MaxOut)}}

\* C13: classification is monotonic in the score: for scores a <= b the HAB
\* category of b is never ranked lower than that of a in the order
\* Low < Moderate < High < Critical, and the water-quality band of b is
\* never lower than that of a.
C13_ClassificationMonotone ==
    /\ op = "analyze_harmful_algal_bloom"
          => \A b \in C13_Scores :
                /\ FLe(ret, b.score) => C13_Rank(category) <= C13_Rank(b.category)
                /\ FLe(b.score, ret) => C13_Rank(b.category) <= C13_Rank(category)
    /\ (op = "analyze_marine_health" /\ raised = "")
          => \A b \in C13_Scores :
                /\ FLe(ret, b.score) => C13_Rank(category) <= C13_Rank(b.band)
                /\ FLe(b.score, ret) => C13_Rank(b.band) <= C13_Rank(category)

\* A HAB score classified Moderate lies below a score that is classified
\* High and above one that is classified Low.
C13_Witness ==
    /\ op = "analyze_harmful_algal_bloom"
    /\ category = "Moderate"
    /\ \E b \in C13_Scores : FLt(ret, b.score) /\ b.category = "High"
    /\ \E b \in C13_Scores : FLt(b.score, ret) /\ b.category = "Low"

\* A water-quality score in the middle band lies between a score in the
\* lowest band and one in the highest.
C13_BandWitness ==
    /\ op = "analyze_marine_health"
    /\ category = "orange"
    /\ \E b \in C13_Scores : FLt(ret, b.score) /\ b.band = "green"
    /\ \E b \in C13_Scores : FLt(b.score, ret) /\ b.band = "red"

====
